---- MODULE Spec2Model ----
(***************************************************************************)
(* Tunnel-backed streaming session layer of the Swahili voice bot.         *)
(*                                                                         *)
(* Four components are modelled, each with its own specification:          *)
(*   Spec      the TTS session: ModalSwahiliTTSService (client) and the    *)
(*             SwahiliTTS.synthesize_websocket worker, joined by the two   *)
(*             directions of one websocket;                                *)
(*   SpecLLM   ModalAyaLLMService (constructor, stop, cancel, _cleanup)    *)
(*             and run_bot, which builds it;                               *)
(*   SpecSTT   the receive loop of the SwahiliTranscriber worker.          *)
(*   SpecWorker  start-up, address publication and shutdown of the AyaLLM  *)
(*             and SwahiliTranscriber worker processes, and resolve.       *)
(* Variables of the components a specification does not run keep their     *)
(* initial values.                                                         *)
(*                                                                         *)
(* The code tags no message with a generation id.  The fields id, epoch,   *)
(* serial, activeGen and sentEpoch below are history tags: they record     *)
(* which prompt a reply answers and what had been sent when a frame was    *)
(* pushed, and no guard of the model reads them.                           *)
(***************************************************************************)
EXTENDS Integers, Sequences, FiniteSets, TLC

\* ------------------------------------------------------------------ bounds
MaxPrompts == 3      \* run_tts calls in one behaviour
MaxEndFrames == 2    \* TTSStoppedFrame / InterruptionFrame pushes
MaxBad == 1          \* messages sent to the TTS worker that are not prompts
MaxFaults == 1       \* injected failures (send, generate, push_frame)
MaxCalls == 3        \* stop / cancel calls on one ModalAyaLLMService
MaxParentFaults == 1 \* failures of the parent service's stop / cancel
MaxSttMsgs == 3      \* messages a client sends to the STT worker
MaxInvocations == 2  \* run_tunnel_client invocations on one worker
MaxDicts == 2        \* modal.Dict objects handed to the worker
MaxPutFaults == 1    \* d.put calls that raise
ResolveTimeout == 2  \* the timeout T of resolve, in seconds

VARIABLES
    session,      \* TTS session state: "Disconnected", "Connected", "Closed"
    running,      \* ModalSwahiliTTSService._running
    toWorker,     \* websocket, client -> worker, messages in flight
    toClient,     \* websocket, worker -> client, messages in flight
    workerPc,     \* synthesize_websocket: "recv", "handle", "closed"
    workerCur,    \* the message the worker is handling
    workerSent,   \* history: what the worker has sent, in order
    frames,       \* history: frames pushed / yielded by the client
    ttsCalls,     \* history: number of run_tts calls
    endFrames,    \* history: number of TTSStopped/Interruption frames pushed
    badSent,      \* history: number of non-prompt messages sent to the worker
    faults,       \* history: number of injected failures
    rxFailures,   \* history: inbound messages whose handling raised
    lastPrompt,   \* history: the prompt run_tts sent last
    speakerId,    \* ModalSwahiliTTSService._speaker_id
    maxTokens,    \* ModalSwahiliTTSService._max_tokens
    ttsTunnel,    \* the TTS tunnel handle: "none", "open", "closed"
    workerTaken,  \* history: messages the TTS worker has taken
    workerLog,    \* history: the messages the TTS worker has handled
    llmMode,      \* who builds the LLM service: "run_bot" or "direct"
    llmUrlArg,    \* base_url argument: "none", "plain" (a URL that does not
                  \* end with /v1), "v1" (that URL followed by /v1)
    llmTmArg,     \* whether a modal_tunnel_manager is passed
    botPc,        \* run_bot: "start", "managers", "running", "failed"
    llmState,     \* the service: "none", "ready", "ctor_raised"
    llmBaseUrl,   \* base_url handed to OpenAILLMService.__init__
    llmPc,        \* stop / cancel in progress: "idle", "parent", "cleanup"
    llmLog,       \* history: events of the stop / cancel calls, in order
    tunnel,       \* the LLM tunnel handle: "none", "open", "closed"
    clientGone,   \* the WebRTC client has disconnected
    cancelQueued, \* task.cancel() has queued a CancelFrame for the pipeline
    sttIn,        \* STT websocket, client -> worker, messages in flight
    sttPc,        \* recv_loop: "recv" or "closed"
    sttOut,       \* history: texts the STT worker sent
    sttLog,       \* history: the messages handled and what became of them
    sttSends,     \* history: number of messages sent to the STT worker
    wKind,        \* the worker process: "llm" (AyaLLM) or "stt"
    wPc,          \* "probe", "sleep", "boot_failed", "ready", "serving",
                  \* "stopped"
    wProc,        \* the vLLM process (llm) or the uvicorn thread (stt):
                  \* "none", "running", "terminated"
    hpI,          \* start_server: the loop variable i
    hpProbes,     \* history: GET /health requests issued
    hpFails,      \* history: requests that raised or were not answered 200
    hpSleeps,     \* history: time.sleep(1) calls
    wTunnel,      \* the worker's tunnel: "none", "open"
    wUrl,         \* self.base_url / self.websocket_url
    regVal,       \* the value under "url" in each modal.Dict
    regWrites,    \* history: d.put("url", ...) calls that stored, per Dict
    pubTick,      \* history: the clock at the first write, per Dict (-1: none)
    invs,         \* the run_tunnel_client invocations
    putFaults,    \* history: d.put calls that raised
    clock,        \* seconds since resolve began
    resState,     \* resolve: "idle", "waiting", "resolved", "timeout"
    resDict,      \* the Dict resolve reads
    resAddr,      \* what resolve returned
    resPolled     \* resolve has checked the Dict in the current second

ttsVars == <<session, running, toWorker, toClient, workerPc, workerCur,
             workerSent, frames, ttsCalls, endFrames, badSent, faults,
             rxFailures, lastPrompt, speakerId, maxTokens, ttsTunnel,
             workerTaken, workerLog>>

llmVars == <<llmMode, llmUrlArg, llmTmArg, botPc, llmState, llmBaseUrl, llmPc,
             llmLog, tunnel, clientGone, cancelQueued>>

sttVars == <<sttIn, sttPc, sttOut, sttLog, sttSends>>

wkVars == <<wKind, wPc, wProc, hpI, hpProbes, hpFails, hpSleeps, wTunnel, wUrl,
            regVal, regWrites, pubTick, invs, putFaults, clock, resState,
            resDict, resAddr, resPolled>>

vars == <<ttsVars, llmVars, sttVars, wkVars>>

\* ------------------------------------------------------- program constants
DefaultSpeakerId == 22
DefaultMaxTokens == 250
MaxRetries == 60     \* max_retries in AyaLLM.start_server

\* ---------------------------------------------------------------- messages
NoMsg == [kind |-> "none", id |-> 0, epoch |-> 0, serial |-> 0]

\* json.dumps(tts_msg): {"type": "prompt", "text", "speaker_id", "max_tokens"}
PromptMsg(id, ep) == [kind |-> "prompt", id |-> id, epoch |-> ep, serial |-> 0]

\* what else a peer can put on the worker's websocket
BadKinds == {"notjson", "notype", "othertype"}
BadMsg(k) == [kind |-> k, id |-> 0, epoch |-> 0, serial |-> 0]

\* websocket.send(audio_bytes): binary reply to prompt p
AudioMsg(p, n) == [kind |-> "audio", id |-> p.id, epoch |-> p.epoch, serial |-> n]

\* websocket.send(json.dumps({"error": str(e)}))
ErrorMsg(n) == [kind |-> "error", id |-> 0, epoch |-> 0, serial |-> n]

\* --------------------------------------------------------------- frames
Frame(f, fatal, m, active, sentEp) ==
    [frame |-> f, fatal |-> fatal, payload |-> m.kind, id |-> m.id,
     epoch |-> m.epoch, serial |-> m.serial,
     activeGen |-> active, sentEpoch |-> sentEp]

PlainFrame(f) == Frame(f, FALSE, NoMsg, 0, 0)
ErrorFrame(fatal) == Frame("ErrorFrame", fatal, NoMsg, 0, 0)

\* number of InterruptionFrames pushed so far
Interruptions(fs) ==
    Cardinality({i \in 1..Len(fs) : fs[i].frame = "InterruptionFrame"})

\* ------------------------------------------------- ModalSwahiliTTSService
\* self._websocket is set exactly while the session is connected
HasWebsocket(s) == s = "Connected"

\* run_tts without the `if not self._running` test
RunTTSFrames_AlwaysStarted(ws, run, sendOk) ==
    IF ~ws THEN <<ErrorFrame(TRUE)>>
    ELSE <<PlainFrame("TTSStartedFrame")>>
         \o (IF sendOk THEN <<>> ELSE <<ErrorFrame(FALSE)>>)

\* run_tts reporting a failed send as a fatal error
RunTTSFrames_FatalSend(ws, run, sendOk) ==
    IF ~ws THEN <<ErrorFrame(TRUE)>>
    ELSE (IF ~run THEN <<PlainFrame("TTSStartedFrame")>> ELSE <<>>)
         \o (IF sendOk THEN <<>> ELSE <<ErrorFrame(TRUE)>>)

\* run_tts: the frames it yields (the trailing None is not a frame)
RunTTSFrames(ws, run, sendOk) ==
    IF ~ws THEN <<ErrorFrame(TRUE)>>
    ELSE (IF ~run THEN <<PlainFrame("TTSStartedFrame")>> ELSE <<>>)
         \o (IF sendOk THEN <<>> ELSE <<ErrorFrame(FALSE)>>)

\* run_tts without the early return: the flag is set even with no websocket
RunTTSRunning_NoReturn(ws, run) == TRUE

\* run_tts: the value of self._running when it returns
RunTTSRunning(ws, run) == IF ~ws THEN run ELSE TRUE

\* run_tts: whether the prompt reaches the transport
RunTTSSends(ws, sendOk) == ws /\ sendOk

\* a push_frame that resets the flag on TTSStoppedFrame only
PushFrameRunning_StopOnly(f, run) ==
    IF f = "TTSStoppedFrame" THEN FALSE ELSE run

\* push_frame: the value of self._running after pushing a frame of class f
PushFrameRunning(f, run) ==
    IF f \in {"TTSStoppedFrame", "InterruptionFrame"} THEN FALSE ELSE run

\* a receive loop that keeps draining the transport buffer after the close
ReceiveEnabled_Buffered(s, q) == q # <<>>

\* _receive_messages: async for message in self._get_websocket()
ReceiveEnabled(s, q) == HasWebsocket(s) /\ q # <<>>

\* an iterator that yields the newest buffered message first
Dequeue_Newest(q) == [msg |-> q[Len(q)], rest |-> SubSeq(q, 1, Len(q) - 1)]

\* the websocket iterator yields the oldest message first
Dequeue(q) == [msg |-> Head(q), rest |-> Tail(q)]

\* _receive_messages: the frame one inbound message becomes.  Every message,
\* binary or text, is wrapped as audio; a failure becomes a non-fatal error.
ReceiveFrame(m, pushOk, last) ==
    IF pushOk THEN Frame("TTSAudioRawFrame", FALSE, m, last.id, last.epoch)
    ELSE Frame("ErrorFrame", FALSE, m, last.id, last.epoch)

\* -------------------------------------------- SwahiliTTS.synthesize_websocket
\* a worker that answers a message of another type with audio
WorkerOutcome_EchoOther(m, genOk) ==
    CASE m.kind = "notjson" -> "error"
      [] m.kind = "notype" -> "error"
      [] m.kind = "othertype" -> "audio"
      [] m.kind = "prompt" -> IF genOk THEN "audio" ELSE "error"

\* what handling one message does: "audio", "nothing" or "error"
WorkerOutcome(m, genOk) ==
    CASE m.kind = "notjson" -> "error"       \* json.loads raises
      [] m.kind = "notype" -> "error"        \* data["type"] raises KeyError
      [] m.kind = "othertype" -> "nothing"
      [] m.kind = "prompt" -> IF genOk THEN "audio" ELSE "error"

\* where the worker continues after an outcome: the except clause encloses
\* the whole loop, so an error leaves the loop and the connection closes
WorkerAfter(outcome) == IF outcome = "error" THEN "closed" ELSE "recv"

\* ------------------------------------------------------------------ TTS
TTSInit ==
    /\ session = "Disconnected"
    /\ running = FALSE
    /\ toWorker = <<>>
    /\ toClient = <<>>
    /\ workerPc = "recv"
    /\ workerCur = NoMsg
    /\ workerSent = <<>>
    /\ frames = <<>>
    /\ ttsCalls = 0
    /\ endFrames = 0
    /\ badSent = 0
    /\ faults = 0
    /\ rxFailures = 0
    /\ lastPrompt = NoMsg
    /\ speakerId = DefaultSpeakerId
    /\ maxTokens = DefaultMaxTokens
    /\ ttsTunnel = "none"
    /\ workerTaken = 0
    /\ workerLog = <<>>

\* start: open + resolve + connect
Connect ==
    /\ session = "Disconnected"
    /\ session' = "Connected"
    /\ ttsTunnel' = "open"
    /\ UNCHANGED <<speakerId, maxTokens, workerTaken, workerLog>>
    /\ UNCHANGED <<running, toWorker, toClient, workerPc, workerCur,
                   workerSent, frames, ttsCalls, endFrames, badSent, faults,
                   rxFailures, lastPrompt>>
    /\ UNCHANGED <<llmVars, sttVars, wkVars>>

\* stop / cancel of the session
CloseSession ==
    /\ session # "Closed"
    /\ session' = "Closed"
    /\ ttsTunnel' = "closed"
    /\ UNCHANGED <<speakerId, maxTokens, workerTaken, workerLog>>
    /\ UNCHANGED <<running, toWorker, toClient, workerPc, workerCur,
                   workerSent, frames, ttsCalls, endFrames, badSent, faults,
                   rxFailures, lastPrompt>>
    /\ UNCHANGED <<llmVars, sttVars, wkVars>>

\* run_tts(prompt)
RunTTS ==
    /\ ttsCalls < MaxPrompts
    /\ \E sendOk \in BOOLEAN :
        LET ws == HasWebsocket(session)
            p == PromptMsg(ttsCalls + 1, Interruptions(frames))
            injected == ws /\ ~sendOk /\ workerPc # "closed"
        IN  /\ injected => faults < MaxFaults
            /\ ~ws => sendOk
            /\ ttsCalls' = ttsCalls + 1
            /\ frames' = frames \o RunTTSFrames(ws, running, sendOk)
            /\ running' = RunTTSRunning(ws, running)
            /\ toWorker' = IF RunTTSSends(ws, sendOk)
                           THEN Append(toWorker, p) ELSE toWorker
            /\ lastPrompt' = IF RunTTSSends(ws, sendOk) THEN p ELSE lastPrompt
            /\ faults' = IF injected THEN faults + 1 ELSE faults
    /\ UNCHANGED <<session, toClient, workerPc, workerCur, workerSent,
                   endFrames, badSent, rxFailures>>
    /\ UNCHANGED <<speakerId, maxTokens, ttsTunnel, workerTaken, workerLog>>
    /\ UNCHANGED <<llmVars, sttVars, wkVars>>

\* push_frame(frame) for a TTSStoppedFrame or an InterruptionFrame
PushFrame ==
    /\ endFrames < MaxEndFrames
    /\ \E f \in {"TTSStoppedFrame", "InterruptionFrame"} :
        /\ running' = PushFrameRunning(f, running)
        /\ frames' = Append(frames, PlainFrame(f))
    /\ endFrames' = endFrames + 1
    /\ UNCHANGED <<session, toWorker, toClient, workerPc, workerCur,
                   workerSent, ttsCalls, badSent, faults, rxFailures,
                   lastPrompt>>
    /\ UNCHANGED <<speakerId, maxTokens, ttsTunnel, workerTaken, workerLog>>
    /\ UNCHANGED <<llmVars, sttVars, wkVars>>

\* one iteration of _receive_messages
ReceiveMessage ==
    /\ ReceiveEnabled(session, toClient)
    /\ \E pushOk \in BOOLEAN :
        LET d == Dequeue(toClient)
        IN  /\ ~pushOk => faults < MaxFaults
            /\ toClient' = d.rest
            /\ frames' = Append(frames, ReceiveFrame(d.msg, pushOk, lastPrompt))
            /\ running' = IF pushOk
                          THEN PushFrameRunning("TTSAudioRawFrame", running)
                          ELSE running
            /\ faults' = IF pushOk THEN faults ELSE faults + 1
            /\ rxFailures' = IF pushOk THEN rxFailures ELSE rxFailures + 1
    /\ UNCHANGED <<session, toWorker, workerPc, workerCur, workerSent,
                   ttsCalls, endFrames, badSent, lastPrompt>>
    /\ UNCHANGED <<speakerId, maxTokens, ttsTunnel, workerTaken, workerLog>>
    /\ UNCHANGED <<llmVars, sttVars, wkVars>>

\* a peer puts a message that is not a prompt on the worker's websocket
PeerSend ==
    /\ badSent < MaxBad
    /\ workerPc # "closed"
    /\ \E k \in BadKinds : toWorker' = Append(toWorker, BadMsg(k))
    /\ badSent' = badSent + 1
    /\ UNCHANGED <<session, running, toClient, workerPc, workerCur,
                   workerSent, frames, ttsCalls, endFrames, faults,
                   rxFailures, lastPrompt>>
    /\ UNCHANGED <<speakerId, maxTokens, ttsTunnel, workerTaken, workerLog>>
    /\ UNCHANGED <<llmVars, sttVars, wkVars>>

\* async for message in websocket: the worker takes the next message
WorkerRecv ==
    /\ workerPc = "recv"
    /\ toWorker # <<>>
    /\ workerCur' = Head(toWorker)
    /\ toWorker' = Tail(toWorker)
    /\ workerPc' = "handle"
    /\ UNCHANGED <<session, running, toClient, workerSent, frames, ttsCalls,
                   endFrames, badSent, faults, rxFailures, lastPrompt>>
    /\ workerTaken' = workerTaken + 1
    /\ UNCHANGED <<speakerId, maxTokens, ttsTunnel, workerLog>>
    /\ UNCHANGED <<llmVars, sttVars, wkVars>>

\* the body of the loop for the message taken, and the except clause
WorkerHandle ==
    /\ workerPc = "handle"
    /\ \E genOk \in BOOLEAN :
        LET out == WorkerOutcome(workerCur, genOk)
            n == Len(workerSent) + 1
            injected == workerCur.kind = "prompt" /\ ~genOk
            reply == IF out = "audio" THEN AudioMsg(workerCur, n) ELSE ErrorMsg(n)
        IN  /\ injected => faults < MaxFaults
            /\ workerCur.kind # "prompt" => genOk
            /\ faults' = IF injected THEN faults + 1 ELSE faults
            /\ workerSent' = IF out = "nothing" THEN workerSent
                             ELSE Append(workerSent, reply)
            /\ toClient' = IF out = "nothing" THEN toClient
                           ELSE Append(toClient, reply)
            /\ workerPc' = WorkerAfter(out)
            /\ workerLog' = Append(workerLog,
                   [kind |-> workerCur.kind, id |-> workerCur.id,
                    genOk |-> genOk, k |-> workerTaken,
                    before |-> Len(workerSent),
                    after |-> IF out = "nothing" THEN Len(workerSent)
                              ELSE Len(workerSent) + 1])
    /\ workerCur' = NoMsg
    /\ UNCHANGED <<session, running, toWorker, frames, ttsCalls, endFrames,
                   badSent, rxFailures, lastPrompt>>
    /\ UNCHANGED <<speakerId, maxTokens, ttsTunnel, workerTaken>>
    /\ UNCHANGED <<llmVars, sttVars, wkVars>>

TTSNext ==
    \/ Connect
    \/ CloseSession
    \/ RunTTS
    \/ PushFrame
    \/ ReceiveMessage
    \/ PeerSend
    \/ WorkerRecv
    \/ WorkerHandle

\* ------------------------------------------------------ ModalTunnelManager
\* close(): idempotent, releases the tunnel only while it is open
TunnelCloseEvents(t) == IF t = "open" THEN <<"release">> ELSE <<>>
TunnelAfterClose(t) == "closed"

\* ------------------------------------------------------ ModalAyaLLMService
\* __init__: raises unless a base_url is given
LLMInitRaises(url) == url = "none"

\* __init__: the base_url passed on to the parent; "/v1" is appended unless
\* the argument already ends with it
LLMNormalise(url) == IF url = "v1" THEN url ELSE "v1"

\* a _cleanup that releases the tunnel itself on every call
CleanupEvents_Direct(hasTm, t) ==
    IF hasTm THEN <<"close", "release">> ELSE <<>>

\* _cleanup: calls close() of the tunnel manager when there is one
CleanupEvents(hasTm, t) ==
    IF hasTm THEN <<"close">> \o TunnelCloseEvents(t) ELSE <<>>

\* stop / cancel: `await super().stop(frame)` then `self._cleanup()`, with
\* no try/finally: when the parent raises, the call ends there
AfterParent(ok) == IF ok THEN "cleanup" ELSE "idle"

Count(log, e) == Cardinality({i \in 1..Len(log) : log[i] = e})

LLMRest ==
    /\ llmMode = "direct"
    /\ llmUrlArg = "plain"
    /\ llmTmArg = TRUE
    /\ botPc = "start"
    /\ llmState = "none"
    /\ llmBaseUrl = "none"
    /\ llmPc = "idle"
    /\ llmLog = <<>>
    /\ tunnel = "none"
    /\ clientGone = FALSE
    /\ cancelQueued = FALSE

\* run_bot always passes its tunnel manager and no base_url; a direct
\* caller of the class chooses both
LLMInit ==
    /\ llmMode \in {"run_bot", "direct"}
    /\ llmUrlArg \in {"none", "plain", "v1"}
    /\ llmTmArg \in BOOLEAN
    /\ llmMode = "run_bot" => (llmUrlArg = "none" /\ llmTmArg = TRUE)
    /\ botPc = "start"
    /\ llmState = "none"
    /\ llmBaseUrl = "none"
    /\ llmPc = "idle"
    /\ llmLog = <<>>
    /\ tunnel = "none"
    /\ clientGone = FALSE
    /\ cancelQueued = FALSE

\* ModalTunnelManager(app_name=..., cls_name=...): the tunnel is requested
CreateManagers ==
    /\ botPc = "start"
    /\ llmMode = "run_bot" \/ llmTmArg
    /\ botPc' = "managers"
    /\ tunnel' = "open"
    /\ UNCHANGED <<llmMode, llmUrlArg, llmTmArg, llmState, llmBaseUrl, llmPc,
                   llmLog, clientGone, cancelQueued>>
    /\ UNCHANGED <<ttsVars, sttVars, wkVars>>

\* ModalAyaLLMService(modal_tunnel_manager=..., base_url=...); in run_bot the
\* pipeline is built and run once the services exist
ConstructLLM ==
    /\ llmState = "none"
    /\ botPc = "managers" \/ (llmMode = "direct" /\ ~llmTmArg)
    /\ IF LLMInitRaises(llmUrlArg)
       THEN /\ llmState' = "ctor_raised"
            /\ botPc' = "failed"
            /\ UNCHANGED llmBaseUrl
       ELSE /\ llmState' = "ready"
            /\ botPc' = "running"
            /\ llmBaseUrl' = LLMNormalise(llmUrlArg)
    /\ UNCHANGED <<llmMode, llmUrlArg, llmTmArg, llmPc, llmLog, tunnel,
                   clientGone, cancelQueued>>
    /\ UNCHANGED <<ttsVars, sttVars, wkVars>>

\* the client disconnects; on_client_disconnected exists only once run_bot
\* has registered it, and then cancels the pipeline task
ClientDisconnect ==
    /\ llmMode = "run_bot"
    /\ ~clientGone
    /\ clientGone' = TRUE
    /\ cancelQueued' = (botPc = "running")
    /\ UNCHANGED <<llmMode, llmUrlArg, llmTmArg, botPc, llmState, llmBaseUrl,
                   llmPc, llmLog, tunnel>>
    /\ UNCHANGED <<ttsVars, sttVars, wkVars>>

\* stop(frame) / cancel(frame) is entered
BeginStopCancel ==
    /\ llmState = "ready"
    /\ llmPc = "idle"
    /\ Count(llmLog, "stop") + Count(llmLog, "cancel") < MaxCalls
    /\ \E op \in {"stop", "cancel"} :
        /\ llmMode = "run_bot" => (op = "cancel" /\ cancelQueued)
        /\ llmLog' = Append(llmLog, op)
    /\ llmPc' = "parent"
    /\ cancelQueued' = FALSE
    /\ UNCHANGED <<llmMode, llmUrlArg, llmTmArg, botPc, llmState, llmBaseUrl,
                   tunnel, clientGone>>
    /\ UNCHANGED <<ttsVars, sttVars, wkVars>>

\* await super().stop(frame) / super().cancel(frame)
ParentStopCancel ==
    /\ llmPc = "parent"
    /\ \E ok \in BOOLEAN :
        /\ ~ok => Count(llmLog, "parent_raise") < MaxParentFaults
        /\ llmLog' = llmLog \o (IF ok THEN <<"parent_ok">>
                                ELSE <<"parent_raise", "raise">>)
        /\ llmPc' = AfterParent(ok)
    /\ UNCHANGED <<llmMode, llmUrlArg, llmTmArg, botPc, llmState, llmBaseUrl,
                   tunnel, clientGone, cancelQueued>>
    /\ UNCHANGED <<ttsVars, sttVars, wkVars>>

\* self._cleanup(), then the call returns
Cleanup ==
    /\ llmPc = "cleanup"
    /\ llmLog' = llmLog \o CleanupEvents(llmTmArg, tunnel) \o <<"return">>
    /\ tunnel' = IF llmTmArg THEN TunnelAfterClose(tunnel) ELSE tunnel
    /\ llmPc' = "idle"
    /\ UNCHANGED <<llmMode, llmUrlArg, llmTmArg, botPc, llmState, llmBaseUrl,
                   clientGone, cancelQueued>>
    /\ UNCHANGED <<ttsVars, sttVars, wkVars>>

LLMNext ==
    \/ CreateManagers
    \/ ConstructLLM
    \/ ClientDisconnect
    \/ BeginStopCancel
    \/ ParentStopCancel
    \/ Cleanup

\* ------------------------------------------- SwahiliTranscriber.recv_loop
\* the messages a client can send on the STT websocket
SttKinds == {"binary", "notjson", "nonobject", "set_vad", "othertype",
             "audio_nokey", "audio_badb64", "audio_speech", "audio_silence",
             "audio_noresult", "audio_fail"}

\* a recv_loop that acknowledges a set_vad message with a reply
SttOutcome_VadAck(k) ==
    IF k = "set_vad" THEN "reply"
    ELSE IF k = "binary" THEN "ends"
    ELSE IF k \in {"notjson", "nonobject", "audio_nokey", "audio_badb64",
                   "audio_fail"} THEN "caught"
    ELSE IF k = "audio_speech" THEN "reply"
    ELSE "skip"

\* what one iteration of recv_loop does with a message:
\*   "reply"  a text is sent        "skip"   nothing is sent
\*   "caught" the try block raised, the except clause prints and continues
\*   "ends"   ws.receive_text(), outside the try block, raised
SttOutcome(k) ==
    CASE k = "binary" -> "ends"            \* receive_text: no "text" key
      [] k = "notjson" -> "caught"         \* json.loads
      [] k = "nonobject" -> "caught"       \* json_data.get on a non-object
      [] k = "set_vad" -> "skip"
      [] k = "othertype" -> "skip"
      [] k = "audio_nokey" -> "caught"     \* json_data["audio"]
      [] k = "audio_badb64" -> "caught"    \* base64.b64decode / np.frombuffer
      [] k = "audio_speech" -> "reply"
      [] k = "audio_silence" -> "skip"     \* text == ""
      [] k = "audio_noresult" -> "skip"    \* transcriptions == []
      [] k = "audio_fail" -> "caught"      \* pipeline.transcribe raises

\* whether self.pipeline.transcribe is called for the message
SttTranscribes(k) ==
    k \in {"audio_speech", "audio_silence", "audio_noresult", "audio_fail"}

\* text = transcriptions[0]["text"] if transcriptions else ""; a message
\* that is answered without a transcription has nothing but "" to send
SttText(k) == IF k = "audio_speech" THEN "habari" ELSE ""

\* recv_loop goes on unless the exception escaped it
SttAfter(outcome) == IF outcome = "ends" THEN "closed" ELSE "recv"

STTInit ==
    /\ sttIn = <<>>
    /\ sttPc = "recv"
    /\ sttOut = <<>>
    /\ sttLog = <<>>
    /\ sttSends = 0

\* the client sends a message
SttClientSend ==
    /\ sttSends < MaxSttMsgs
    /\ \E k \in SttKinds : sttIn' = Append(sttIn, k)
    /\ sttSends' = sttSends + 1
    /\ UNCHANGED <<sttPc, sttOut, sttLog>>
    /\ UNCHANGED <<ttsVars, llmVars, wkVars>>

\* one iteration of `while True` in recv_loop
SttRecv ==
    /\ sttPc = "recv"
    /\ sttIn # <<>>
    /\ LET k == Head(sttIn)
           out == SttOutcome(k)
       IN  /\ sttIn' = Tail(sttIn)
           /\ sttLog' = Append(sttLog, [msg |-> k, outcome |-> out,
                                        transcribed |-> SttTranscribes(k),
                                        sent |-> IF out = "reply" THEN 1 ELSE 0])
           /\ sttOut' = IF out = "reply" THEN Append(sttOut, SttText(k))
                        ELSE sttOut
           /\ sttPc' = SttAfter(out)
    /\ UNCHANGED sttSends
    /\ UNCHANGED <<ttsVars, llmVars, wkVars>>

STTNext ==
    \/ SttClientSend
    \/ SttRecv

\* --------------------------------------------- worker start-up, registry
Dicts == 1..MaxDicts

\* a URL as scheme, host and path; NoUrl is an absent or None value
NoUrl == [scheme |-> "", host |-> "", path |-> ""]

\* modal.forward(UVICORN_PORT).url
TunnelUrl == [scheme |-> "https", host |-> "tunnel", path |-> ""]

\* AyaLLM._start_tunnel: self.base_url = self.tunnel.url
\* SwahiliTranscriber._start_server:
\*   self.tunnel.url.replace("https://", "wss://") + "/ws"
WorkerUrl(kind, u) ==
    IF kind = "llm" THEN u
    ELSE [scheme |-> IF u.scheme = "https" THEN "wss" ELSE u.scheme,
          host |-> u.host, path |-> u.path \o "/ws"]

\* a readiness test that accepts any answer
ProbeReady_AnyAnswer(outcome) == outcome # "exception"

\* start_server: response.status_code == 200; a request that raises is
\* swallowed by the bare except
ProbeReady(outcome) == outcome = "200"

\* start_server: after time.sleep(1), `if i == max_retries - 1: raise`
AfterSleep(i) == IF i = MaxRetries - 1 THEN "boot_failed" ELSE "probe"

\* a run_tunnel_client that publishes an empty value
PublishedValue_Empty(u) == NoUrl

\* run_tunnel_client: await d.put.aio("url", self.base_url)
PublishedValue(u) == u

\* a run_tunnel_client that publishes again on every turn of its loop
InvAfterPut_Republish(ok) == IF ok THEN "put" ELSE "returned"

\* run_tunnel_client: after the put it sleeps for ever; an exception is
\* printed and the method returns
InvAfterPut(ok) == IF ok THEN "sleeping" ELSE "returned"

\* a worker that takes method calls while it is still starting
AcceptsCalls_Early(pc) == pc \in {"probe", "sleep", "ready", "serving"}

\* @modal.enter / @modal.method: the container takes calls of
\* run_tunnel_client once every enter method has returned, and none when an
\* enter method raised or after the container has shut down
AcceptsCalls(pc) == pc = "serving"

\* the worker process is running its code
Alive(pc) == pc \notin {"boot_failed", "stopped"}

\* subprocess.Popen(cmd) precedes the probe loop of AyaLLM.start_server;
\* the STT server thread is started in _start_server
InitialProc(kind) == IF kind = "llm" THEN "running" ELSE "none"

\* AyaLLM.stop_server: self.process.terminate(); self.process.wait().
\* SwahiliTranscriber has no exit method: its server thread is a daemon
\* thread and ends with the process.
StopProc(kind, p) == IF p = "running" THEN "terminated" ELSE p

\* what shutting down does to the tunnel: stop_server does not touch
\* self.tunnel_ctx, and SwahiliTranscriber has no exit method
StopTunnel(kind, t) == t

WorkerRest ==
    /\ wKind = "llm"
    /\ wPc = "probe"
    /\ wProc = InitialProc("llm")
    /\ hpI = 0
    /\ hpProbes = 0
    /\ hpFails = 0
    /\ hpSleeps = 0
    /\ wTunnel = "none"
    /\ wUrl = NoUrl
    /\ regVal = [d \in Dicts |-> NoUrl]
    /\ regWrites = [d \in Dicts |-> 0]
    /\ pubTick = [d \in Dicts |-> -1]
    /\ invs = <<>>
    /\ putFaults = 0
    /\ clock = 0
    /\ resState = "idle"
    /\ resDict = 1
    /\ resAddr = NoUrl
    /\ resPolled = FALSE

\* the LLM worker starts in start_server's probe loop; the STT worker has
\* no readiness wait (load_model has returned)
WorkerInit ==
    /\ wKind \in {"llm", "stt"}
    /\ wPc = IF wKind = "llm" THEN "probe" ELSE "ready"
    /\ wProc = InitialProc(wKind)
    /\ hpI = 0
    /\ hpProbes = 0
    /\ hpFails = 0
    /\ hpSleeps = 0
    /\ wTunnel = "none"
    /\ wUrl = NoUrl
    /\ regVal = [d \in Dicts |-> NoUrl]
    /\ regWrites = [d \in Dicts |-> 0]
    /\ pubTick = [d \in Dicts |-> -1]
    /\ invs = <<>>
    /\ putFaults = 0
    /\ clock = 0
    /\ resState = "idle"
    /\ resDict = 1
    /\ resAddr = NoUrl
    /\ resPolled = FALSE

\* start_server: one requests.get of the loop
Probe ==
    /\ wPc = "probe"
    /\ \E outcome \in {"200", "non200", "exception"} :
        /\ wPc' = IF ProbeReady(outcome) THEN "ready" ELSE "sleep"
        /\ hpFails' = IF outcome = "200" THEN hpFails ELSE hpFails + 1
    /\ hpProbes' = hpProbes + 1
    /\ UNCHANGED <<wKind, wProc, hpI, hpSleeps, wTunnel, wUrl, regVal, regWrites,
                   pubTick, invs, putFaults, clock, resState, resDict,
                   resAddr, resPolled>>
    /\ UNCHANGED <<ttsVars, llmVars, sttVars>>

\* start_server: time.sleep(1) and the test that ends the loop
ProbeSleep ==
    /\ wPc = "sleep"
    /\ hpSleeps' = hpSleeps + 1
    /\ wPc' = AfterSleep(hpI)
    /\ hpI' = IF hpI = MaxRetries - 1 THEN hpI ELSE hpI + 1
    /\ UNCHANGED <<wKind, wProc, hpProbes, hpFails, wTunnel, wUrl, regVal, regWrites,
                   pubTick, invs, putFaults, clock, resState, resDict,
                   resAddr, resPolled>>
    /\ UNCHANGED <<ttsVars, llmVars, sttVars>>

\* AyaLLM._start_tunnel / SwahiliTranscriber._start_server
StartTunnel ==
    /\ wPc = "ready"
    /\ wTunnel' = "open"
    /\ wUrl' = WorkerUrl(wKind, TunnelUrl)
    /\ wPc' = "serving"
    /\ wProc' = IF wKind = "stt" THEN "running" ELSE wProc
    /\ UNCHANGED <<wKind, hpI, hpProbes, hpFails, hpSleeps, regVal, regWrites,
                   pubTick, invs, putFaults, clock, resState, resDict,
                   resAddr, resPolled>>
    /\ UNCHANGED <<ttsVars, llmVars, sttVars>>

\* run_tunnel_client(d) is invoked on the worker
InvokeTunnelClient ==
    /\ AcceptsCalls(wPc)
    /\ Len(invs) < MaxInvocations
    /\ \E d \in Dicts : invs' = Append(invs, [d |-> d, pc |-> "put", writes |-> 0])
    /\ UNCHANGED <<wKind, wPc, wProc, hpI, hpProbes, hpFails, hpSleeps, wTunnel,
                   wUrl,
                   regVal, regWrites, pubTick, putFaults, clock, resState,
                   resDict, resAddr, resPolled>>
    /\ UNCHANGED <<ttsVars, llmVars, sttVars>>

\* run_tunnel_client: the put, and the except clause when it raises
PublishUrl ==
    /\ Alive(wPc)
    /\ \E k \in 1..Len(invs) : \E ok \in BOOLEAN :
        LET d == invs[k].d
        IN  /\ invs[k].pc = "put"
            /\ ~ok => putFaults < MaxPutFaults
            /\ putFaults' = IF ok THEN putFaults ELSE putFaults + 1
            /\ regVal' = IF ok THEN [regVal EXCEPT ![d] = PublishedValue(wUrl)]
                         ELSE regVal
            /\ regWrites' = IF ok THEN [regWrites EXCEPT ![d] = @ + 1]
                            ELSE regWrites
            /\ pubTick' = IF ok /\ pubTick[d] = -1
                          THEN [pubTick EXCEPT ![d] = clock] ELSE pubTick
            /\ invs' = [invs EXCEPT ![k] =
                          [d |-> d, pc |-> InvAfterPut(ok),
                           writes |-> IF ok THEN @.writes + 1 ELSE @.writes]]
    /\ UNCHANGED <<wKind, wPc, wProc, hpI, hpProbes, hpFails, hpSleeps, wTunnel,
                   wUrl,
                   clock, resState, resDict, resAddr, resPolled>>
    /\ UNCHANGED <<ttsVars, llmVars, sttVars>>

\* the container shuts down: AyaLLM.stop_server runs (@modal.exit);
\* SwahiliTranscriber defines no exit method
StopWorker ==
    /\ wPc \in {"ready", "serving"}
    /\ wPc' = "stopped"
    /\ wProc' = StopProc(wKind, wProc)
    /\ wTunnel' = StopTunnel(wKind, wTunnel)
    /\ UNCHANGED <<wKind, hpI, hpProbes, hpFails, hpSleeps, wUrl, regVal,
                   regWrites, pubTick, invs, putFaults, clock, resState,
                   resDict, resAddr, resPolled>>
    /\ UNCHANGED <<ttsVars, llmVars, sttVars>>

\* ------------------------------------------- ModalTunnelManager: resolve
\* resolve(handle, timeout) begins to wait for the address in a Dict
StartResolve ==
    /\ resState = "idle"
    /\ \E d \in Dicts : resDict' = d
    /\ resState' = "waiting"
    /\ UNCHANGED <<wKind, wPc, wProc, hpI, hpProbes, hpFails, hpSleeps, wTunnel,
                   wUrl,
                   regVal, regWrites, pubTick, invs, putFaults, clock,
                   resAddr, resPolled>>
    /\ UNCHANGED <<ttsVars, llmVars, sttVars>>

\* one check of the Dict: an absent entry means not ready yet, until the
\* timeout has elapsed
ResolvePoll ==
    /\ resState = "waiting"
    /\ ~resPolled
    /\ IF regVal[resDict] # NoUrl
       THEN resState' = "resolved" /\ resAddr' = regVal[resDict]
       ELSE IF clock >= ResolveTimeout
            THEN resState' = "timeout" /\ UNCHANGED resAddr
            ELSE UNCHANGED <<resState, resAddr>>
    /\ resPolled' = TRUE
    /\ UNCHANGED <<wKind, wPc, wProc, hpI, hpProbes, hpFails, hpSleeps, wTunnel,
                   wUrl,
                   regVal, regWrites, pubTick, invs, putFaults, clock, resDict>>
    /\ UNCHANGED <<ttsVars, llmVars, sttVars>>

\* a second passes while resolve waits
ResolveTick ==
    /\ resState = "waiting"
    /\ resPolled
    /\ clock < ResolveTimeout
    /\ clock' = clock + 1
    /\ resPolled' = FALSE
    /\ UNCHANGED <<wKind, wPc, wProc, hpI, hpProbes, hpFails, hpSleeps, wTunnel,
                   wUrl,
                   regVal, regWrites, pubTick, invs, putFaults, resState,
                   resDict, resAddr>>
    /\ UNCHANGED <<ttsVars, llmVars, sttVars>>

WorkerNext ==
    \/ Probe
    \/ ProbeSleep
    \/ StartTunnel
    \/ InvokeTunnelClient
    \/ PublishUrl
    \/ StopWorker
    \/ StartResolve
    \/ ResolvePoll
    \/ ResolveTick

\* ------------------------------------------------------- specifications
Init == TTSInit /\ LLMRest /\ STTInit /\ WorkerRest
Next == TTSNext
Spec == Init /\ [][Next]_vars

\* the tasks of the code run whenever they can: the worker's loop and the
\* client's receive loop; calls and frames from the pipeline are not forced
LiveSpec ==
    /\ Init /\ [][Next]_vars
    /\ WF_vars(WorkerRecv) /\ WF_vars(WorkerHandle) /\ WF_vars(ReceiveMessage)

InitLLM == LLMInit /\ TTSInit /\ STTInit /\ WorkerRest
SpecLLM == InitLLM /\ [][LLMNext]_vars

\* the event loop runs every task that is ready: a step of the service or of
\* run_bot that can be taken is taken
LiveSpecLLM == InitLLM /\ [][LLMNext]_vars /\ WF_vars(LLMNext)

InitSTT == STTInit /\ TTSInit /\ LLMRest /\ WorkerRest
SpecSTT == InitSTT /\ [][STTNext]_vars

InitWorker == WorkerInit /\ TTSInit /\ LLMRest /\ STTInit
SpecWorker == InitWorker /\ [][WorkerNext]_vars

\* ------------------------------------------------------ properties, TTS
\* the frames that carry an audio reply of the worker downstream
IsAudio(f) == f.frame = "TTSAudioRawFrame" /\ f.payload = "audio"
AudioFrames(fs) == SelectSeq(fs, IsAudio)

\* C1: once an interruption has occurred and a new prompt has been sent, no
\* audio produced for a prompt sent before the interruption is pushed
\* downstream (the epoch of a pushed audio frame is never older than the
\* epoch of the prompt sent last).
C1_NoStaleAfterInterrupt ==
    \A i \in 1..Len(frames) :
        IsAudio(frames[i]) => ~(frames[i].epoch < frames[i].sentEpoch)

\* C2: once a second prompt has been sent, audio of an earlier prompt that
\* arrives later is never pushed downstream (a pushed audio frame always
\* answers the prompt sent last).
C2_OnlyLatestPromptAudio ==
    \A i \in 1..Len(frames) :
        IsAudio(frames[i]) => frames[i].id = frames[i].activeGen

C7_NotConnectedNoSideEffects ==
    [][(ttsCalls' = ttsCalls + 1 /\ ~HasWebsocket(session)) =>
        /\ toWorker' = toWorker
        /\ running' = running
        /\ frames' = Append(frames, ErrorFrame(TRUE))]_vars

\* run_tts has been called with no websocket
C7_Witness ==
    /\ ttsCalls > 0
    /\ \E i \in 1..Len(frames) :
        frames[i].frame = "ErrorFrame" /\ frames[i].fatal

\* C8: the audio frames pushed downstream are in the order in which the
\* worker sent them, without duplicates, each being a message the worker
\* sent; and the worker's audio replies are in the order of the prompts.
C8_OrderPreserved ==
    /\ \A i, j \in 1..Len(frames) :
        (i < j /\ frames[i].serial > 0 /\ frames[j].serial > 0)
            => frames[i].serial < frames[j].serial
    /\ \A i \in 1..Len(frames) :
        frames[i].serial > 0 =>
            /\ frames[i].serial <= Len(workerSent)
            /\ workerSent[frames[i].serial].id = frames[i].id
            /\ workerSent[frames[i].serial].kind = frames[i].payload
    /\ \A i, j \in 1..Len(workerSent) :
        (i < j /\ workerSent[i].kind = "audio" /\ workerSent[j].kind = "audio")
            => workerSent[i].id < workerSent[j].id

\* two replies were in flight together and both have been pushed
C8_Witness ==
    /\ Len(AudioFrames(frames)) >= 2
    /\ \E i \in 1..Len(frames) :
        IsAudio(frames[i]) /\ frames[i].id < frames[i].activeGen

\* C10: an error frame sent by the TTS worker is non-fatal: after sending
\* it the worker's session stays open and goes on serving prompts.
C10_WorkerErrorNonFatal ==
    (\E i \in 1..Len(workerSent) : workerSent[i].kind = "error")
        => workerPc # "closed"


\* ------------------------------------------------------ properties, LLM
\* the events of the call that contains event i, from i onwards
CallTail(log, i) ==
    LET ends == {j \in i..Len(log) : log[j] \in {"return", "raise"}}
    IN  IF ends = {} THEN SubSeq(log, i, Len(log))
        ELSE SubSeq(log, i, CHOOSE j \in ends : \A k \in ends : j <= k)

InSeq(e, q) == \E j \in 1..Len(q) : q[j] = e

\* C3: on every stop or cancel with a tunnel manager the parent's
\* stop/cancel completes first and close() is called after it, never
\* before; and a client disconnect in run_bot is eventually followed by
\* that close.
C3_CloseAfterParentAndOnDisconnect ==
    /\ [](\A i \in 1..Len(llmLog) :
            llmLog[i] = "close" => (i > 1 /\ llmLog[i - 1] = "parent_ok"))
    /\ (clientGone ~> InSeq("close", llmLog))

C5_CloseRunsAfterParentFailure ==
    \A i \in 1..Len(llmLog) :
        (llmTmArg /\ llmLog[i] = "parent_raise" /\ llmPc = "idle")
            => InSeq("close", CallTail(llmLog, i))

\* ------------------------------------------------ properties, receive loops
\* C9: a failure while handling one inbound message does not end the
\* receive loop and is not escalated: the client reports it as a non-fatal
\* error, and the STT worker's recv_loop is still receiving after it.
C9_ReceiveLoopsSurviveFailures ==
    /\ \A i \in 1..Len(frames) :
        (frames[i].frame = "ErrorFrame" /\ frames[i].serial > 0)
            => ~frames[i].fatal
    /\ (\E i \in 1..Len(sttLog) : sttLog[i].outcome \in {"caught", "ends"})
        => sttPc = "recv"

\* ------------------------------------------------------ properties, STT
\* C11: for every audio message the STT worker sends at most one reply, a
\* reply is a non-empty text, nothing is sent for an empty or failed
\* transcription, and the receive loop never terminates because of the
\* content of a message.
C11_SttRepliesAndKeepsServing ==
    /\ \A i \in 1..Len(sttLog) :
        /\ sttLog[i].sent <= 1
        /\ sttLog[i].msg \in {"audio_silence", "audio_noresult", "audio_fail",
                              "audio_badb64", "audio_nokey"}
            => sttLog[i].sent = 0
    /\ \A i \in 1..Len(sttOut) : sttOut[i] # ""
    /\ sttPc = "recv"

\* what recv_loop sends for a sequence of messages, computed from the start
RECURSIVE SttReplay(_)
SttReplay(ms) ==
    IF ms = <<>> THEN <<>>
    ELSE (IF SttOutcome(Head(ms)) = "reply" THEN <<SttText(Head(ms))>> ELSE <<>>)
         \o (IF SttOutcome(Head(ms)) = "ends" THEN <<>> ELSE SttReplay(Tail(ms)))

SttHandled == [i \in 1..Len(sttLog) |-> sttLog[i].msg]

\* C19: a set_vad message produces no reply, triggers no transcription and
\* leaves the loop receiving, and the replies sent are those the worker
\* sends for the same messages without the set_vad messages.
C19_SetVadIsNoOp ==
    /\ \A i \in 1..Len(sttLog) :
        sttLog[i].msg = "set_vad" =>
            /\ sttLog[i].sent = 0
            /\ ~sttLog[i].transcribed
            /\ (i = Len(sttLog) => sttPc = "recv")
    /\ sttOut = SttReplay(SelectSeq(SttHandled, LAMBDA k : k # "set_vad"))

\* a set_vad message was handled between two audio messages that are answered
C19_Witness ==
    /\ Len(sttLog) >= 3
    /\ sttLog[1].msg = "audio_speech"
    /\ sttLog[2].msg = "set_vad"
    /\ sttLog[3].msg = "audio_speech"
    /\ Len(sttOut) = 2

\* ------------------------------------------------ properties, TTS state
\* the frames a step appended
Appended == SubSeq(frames', Len(frames) + 1, Len(frames'))

IsEndFrame(f) == f.frame \in {"TTSStoppedFrame", "InterruptionFrame"}

\* C12: after a prompt on a connected session, with no error, the audio is
\* followed eventually by a stream end, so that the session leaves the
\* streaming state (the running flag returns to False).
C12_StreamEndsEventually ==
    (running /\ lastPrompt.id > 0)
        ~> (~running \/ faults > 0 \/ badSent > 0 \/ session # "Connected")

\* C13: at most one TTSStartedFrame between two end-of-utterance frames; the
\* running flag becomes True only in run_tts with a websocket, and becomes
\* False only when a TTSStoppedFrame or InterruptionFrame is pushed.
C13_StreamingEntersOncePerUtterance ==
    /\ [](\A i, j \in 1..Len(frames) :
            (i < j /\ frames[i].frame = "TTSStartedFrame"
                   /\ frames[j].frame = "TTSStartedFrame")
                => \E k \in (i + 1)..(j - 1) : IsEndFrame(frames[k]))
    /\ [][(~running /\ running')
            => (ttsCalls' = ttsCalls + 1 /\ HasWebsocket(session))]_vars
    /\ [][(running /\ ~running')
            => (Len(Appended) = 1 /\ IsEndFrame(Appended[1]))]_vars

\* two utterances were started, separated by an end-of-utterance frame, and
\* a prompt was sent while the session was already streaming
C13_Witness ==
    /\ Cardinality({i \in 1..Len(frames) :
                        frames[i].frame = "TTSStartedFrame"}) >= 2
    /\ ttsCalls = 3
    /\ Len(toWorker) + Len(workerSent) = 3

\* C14: an InterruptionFrame through push_frame resets the running flag and
\* is forwarded; the websocket, the speaker id, the max-token setting and
\* the tunnel are left as they were.
C14_InterruptOnlyResetsRunning ==
    [][(Len(Appended) = 1 /\ Appended[1].frame = "InterruptionFrame") =>
        /\ running' = FALSE
        /\ frames' = Append(frames, PlainFrame("InterruptionFrame"))
        /\ session' = session
        /\ toWorker' = toWorker
        /\ toClient' = toClient
        /\ speakerId' = speakerId
        /\ maxTokens' = maxTokens
        /\ ttsTunnel' = ttsTunnel]_vars

\* the user interrupted a streaming utterance on a connected session
C14_Witness ==
    /\ session = "Connected"
    /\ ttsTunnel = "open"
    /\ ~running
    /\ \E i \in 2..Len(frames) :
        /\ frames[i].frame = "InterruptionFrame"
        /\ frames[i - 1].frame = "TTSStartedFrame"
        /\ i = Len(frames)

\* C20: a failed send in run_tts yields exactly one error frame, not fatal,
\* after the TTSStartedFrame if the utterance starts there; the session is
\* not torn down and the running flag is True afterwards, so that a run_tts
\* made while the flag is set emits no TTSStartedFrame.
C20_FailedSendIsNonFatal ==
    /\ [][(ttsCalls' = ttsCalls + 1 /\ HasWebsocket(session)
                /\ toWorker' = toWorker) =>
            /\ Appended = (IF running THEN <<>>
                           ELSE <<PlainFrame("TTSStartedFrame")>>)
                          \o <<ErrorFrame(FALSE)>>
            /\ running'
            /\ session' = session
            /\ ttsTunnel' = ttsTunnel]_vars
    /\ [][(ttsCalls' = ttsCalls + 1 /\ running) =>
            \A i \in 1..Len(Appended) :
                Appended[i].frame # "TTSStartedFrame"]_vars

\* the first send failed and a second run_tts followed on the same session
C20_Witness ==
    /\ ttsCalls = 2
    /\ frames = <<PlainFrame("TTSStartedFrame"), ErrorFrame(FALSE)>>
    /\ lastPrompt.id = 2
    /\ running
    /\ session = "Connected"

\* ---------------------------------------------------- properties, run_bot
\* C17: on pipeline start the services run_bot builds are constructed
\* without error; ModalAyaLLMService built with a tunnel manager and no
\* base_url does not fail, so run_bot reaches the point where the pipeline
\* runs.
C17_RunBotConstructsServices ==
    (llmTmArg /\ llmUrlArg = "none")
        => (llmState # "ctor_raised" /\ botPc # "failed")

\* ------------------------------------- properties, worker and registry
Writers == {k \in 1..Len(invs) : invs[k].writes > 0}

\* C15: the "url" entry of a worker is written at most once in the lifetime
\* of the worker process, however many times run_tunnel_client is invoked.
C15_WrittenOncePerLifetime == Cardinality(Writers) <= 1

\* C15, amended: every invocation of run_tunnel_client writes "url" at most
\* once, and exactly once when its put succeeded; every write stores the
\* worker's URL, so an entry never changes once it is present.
C15_WrittenOncePerInvocation ==
    /\ [](\A k \in 1..Len(invs) :
            /\ invs[k].writes <= 1
            /\ invs[k].pc = "sleeping" => invs[k].writes = 1
            /\ invs[k].pc = "returned" => invs[k].writes = 0)
    /\ [](\A d \in Dicts : regVal[d] \in {NoUrl, wUrl})
    /\ [][\A d \in Dicts : regVal[d] # NoUrl => regVal'[d] = regVal[d]]_vars

\* two invocations have published into the same Dict
C15_Witness ==
    \E d \in Dicts : regWrites[d] = 2 /\ regVal[d] = wUrl /\ wUrl # NoUrl

\* C16: resolve returns exactly the published address when the worker
\* publishes before the timeout T, and fails with a timeout when the worker
\* publishes after T or never (a put that raised included); it never
\* returns an absent address and never waits beyond T.
C16_ResolveWithinTimeout ==
    /\ resState = "resolved" =>
        /\ resAddr = WorkerUrl(wKind, TunnelUrl)
        /\ resAddr # NoUrl
        /\ pubTick[resDict] >= 0
        /\ pubTick[resDict] <= ResolveTimeout
    /\ resState = "timeout" =>
        /\ resAddr = NoUrl
        /\ pubTick[resDict] = -1 \/ pubTick[resDict] >= ResolveTimeout
    /\ resState = "waiting" => clock <= ResolveTimeout

\* resolve found the entry absent, waited, and then returned the address
C16_Witness ==
    /\ resState = "resolved"
    /\ pubTick[resDict] > 0
    /\ putFaults > 0

\* C18: start_server issues at most MaxRetries probes, one sleep apart;
\* it returns at the first probe answered 200 and probes no further, counts
\* every other outcome as not ready, and fails exactly when all MaxRetries
\* probes failed.
C18_HealthWaitBounded ==
    /\ hpProbes <= MaxRetries
    /\ hpProbes - hpFails \in {0, 1}
    /\ hpProbes - hpSleeps \in {0, 1}
    /\ wPc = "probe" => (hpProbes = hpI /\ hpSleeps = hpI /\ hpFails = hpI)
    /\ (wKind = "llm" /\ wPc \in {"ready", "serving"}) =>
        (hpProbes - hpFails = 1 /\ hpProbes = hpI + 1 /\ hpSleeps = hpI)
    /\ wPc = "boot_failed" => (hpFails = MaxRetries /\ hpSleeps = MaxRetries)
    /\ hpFails = MaxRetries => wPc \in {"sleep", "boot_failed"}

\* the server answered 200 to the last probe the loop allows
C18_Witness ==
    /\ wPc = "ready"
    /\ hpProbes = MaxRetries
    /\ hpFails = MaxRetries - 1

\* C21: a worker publishes its address only after it is reachable.  At
\* every write of "url" the tunnel is open; in the LLM worker the health
\* probe has been answered 200 and the server process runs; in the STT
\* worker the server thread has been started; and the value written is the
\* tunnel URL, never absent: https for the LLM worker, wss://.../ws for the
\* STT worker.
C21_PublishedOnlyWhenReachable ==
    [][\A d \in Dicts : regWrites'[d] > regWrites[d] =>
          /\ wPc = "serving"
          /\ wTunnel = "open"
          /\ wProc = "running"
          /\ wKind = "llm" => hpProbes - hpFails = 1
          /\ regVal'[d] # NoUrl
          /\ regVal'[d] = WorkerUrl(wKind, TunnelUrl)
          /\ regVal'[d].host = TunnelUrl.host
          /\ wKind = "llm" => regVal'[d] = TunnelUrl
          /\ wKind = "stt" =>
                (regVal'[d].scheme = "wss" /\ regVal'[d].path = "/ws")]_vars

\* the STT worker has published its rewritten tunnel URL
C21_Witness ==
    /\ wKind = "stt"
    /\ \E d \in Dicts :
        /\ regWrites[d] > 0
        /\ regVal[d] = [scheme |-> "wss", host |-> "tunnel", path |-> "/ws"]

\* C22: every tunnel a worker opens at start-up is closed when the worker
\* shuts down: no tunnel outlives its worker.
C22_TunnelClosedOnShutdown == wPc = "stopped" => wTunnel # "open"

\* ------------------------------------------ properties, TTS worker loop
\* the messages the worker sent while it handled entry e of its log
RepliesTo(e) == SubSeq(workerSent, e.before + 1, e.after)

\* entry e was answered with exactly one message, of kind k, carrying the
\* id of the message handled
OneReply(e, k) ==
    /\ e.after = e.before + 1
    /\ workerSent[e.after].kind = k
    /\ workerSent[e.after].id = e.id

\* the worker handles one message at a time: a message is taken only when
\* every message taken before has been handled, everything the worker sent
\* was sent while handling some message, in the order of the messages, and
\* a message that carries a type other than "prompt" is answered with
\* nothing
OneAtATime ==
    /\ workerTaken - Len(workerLog) = IF workerPc = "handle" THEN 1 ELSE 0
    /\ \A i \in 1..Len(workerLog) :
        /\ workerLog[i].k = i
        /\ workerLog[i].before =
              IF i = 1 THEN 0 ELSE workerLog[i - 1].after
        /\ workerLog[i].kind = "othertype" => RepliesTo(workerLog[i]) = <<>>
    /\ Len(workerSent) =
          IF workerLog = <<>> THEN 0 ELSE workerLog[Len(workerLog)].after

====
